---- MODULE Spec2Model ----
(***************************************************************************)
(* State-machine model of src/mlem/mlem_reconstruct.py: the class          *)
(* MLEMReconstructor (constructor, read_image, reconstruct), the file      *)
(* system it looks at, and the reconstruction engine MLEM_TOF_Reco that    *)
(* reconstruct calls through ctypes.  The engine lives in libMLEM.so, not   *)
(* in the Python source; its actions are modelled from section 4.3 of the  *)
(* specification.                                                          *)
(*                                                                         *)
(* Strings are sequences of one-character strings, so that split('/') and  *)
(* the folder_path loop are computed character by character.  Voxel values *)
(* are exact rationals <<num, den>>; the values that cross the float32     *)
(* boundary in the model (small integers and the engine's own float32      *)
(* image) are exactly representable, so c_float and struct.unpack keep     *)
(* them unchanged.                                                         *)
(***************************************************************************)
EXTENDS Integers, Sequences, FiniteSets, TLC

\* ------------------------------------------------------------------ bounds

MaxXY == 2
MaxZ == 2
MaxLor == 2
MaxIter == 3

\* ------------------------------------------------------------- sentinels

Slash == "/"

\* ------------------------------------------------------------- sequences

RECURSIVE ConcatAll(_)
ConcatAll(ss) ==
    IF ss = <<>> THEN <<>> ELSE Head(ss) \o ConcatAll(Tail(ss))

\* ----------------------------------------------------------- path strings

\* str.split(sep): the pieces between separators; always at least one piece.
RECURSIVE SplitFrom(_, _, _)
SplitFrom(s, sep, cur) ==
    IF s = <<>> THEN <<cur>>
    ELSE IF Head(s) = sep THEN <<cur>> \o SplitFrom(Tail(s), sep, <<>>)
    ELSE SplitFrom(Tail(s), sep, Append(cur, Head(s)))

Split(s, sep) == SplitFrom(s, sep, <<>>)

\* The loop of lines 148-151 over a list of path pieces.
RECURSIVE JoinFolders(_, _)
JoinFolders(ps, acc) ==
    IF ps = <<>> THEN acc
    ELSE JoinFolders(Tail(ps),
                     (IF Head(ps) # <<>> THEN acc \o Head(ps) ELSE acc) \o <<Slash>>)

\* folder_path of lines 146-151: folders[:-1] joined, each followed by '/'.
FolderPath(prefix) ==
    LET folders == Split(prefix, Slash)
    IN JoinFolders(SubSeq(folders, 1, Len(folders) - 1), <<>>)

\* The process's working directory, as the list of its components.
Cwd == <<"w">>

\* The directory a path string names: an absolute path starts at the root,
\* a relative one at the working directory; empty components (a doubled or
\* a trailing '/') are skipped, as the kernel's path walk does.
Resolve(p) ==
    LET comps == SelectSeq(Split(p, Slash), LAMBDA c : c # <<>>)
        names == [n \in 1..Len(comps) |-> comps[n]]
    IN IF p # <<>> /\ Head(p) = Slash THEN names ELSE Cwd \o names

\* os.path.exists(p) for a path that is empty or ends with '/': stat('')
\* fails, and a path with a trailing '/' exists only as a directory.
PathExists(p, ds) == p # <<>> /\ Resolve(p) \in ds

\* ------------------------------------------------------------- rationals

\* A voxel value is <<num, den>> in lowest terms with den > 0; den = 0 is
\* what IEEE division by zero leaves: <<0, 0>> for 0/0 (NaN), <<1, 0>> for
\* x/0 with x > 0 (infinity).
RECURSIVE GCD(_, _)
GCD(a, b) == IF b = 0 THEN a ELSE GCD(b, a % b)

Norm(n, d) ==
    IF d = 0 THEN (IF n = 0 THEN <<0, 0>> ELSE <<1, 0>>)
    ELSE IF n = 0 THEN <<0, 1>>
    ELSE LET g == GCD(n, d) IN <<n \div g, d \div g>>

Rat(k) == <<k, 1>>
Zero == Rat(0)
One == Rat(1)
IsFinite(a) == a[2] # 0
RAdd(a, b) ==
    IF ~IsFinite(a) \/ ~IsFinite(b) THEN (IF a = <<0, 0>> \/ b = <<0, 0>> THEN <<0, 0>> ELSE <<1, 0>>)
    ELSE LET g == GCD(a[2], b[2])
         IN Norm(a[1] * (b[2] \div g) + b[1] * (a[2] \div g), (a[2] \div g) * b[2])
RMul(a, b) ==
    IF ~IsFinite(a) \/ ~IsFinite(b) THEN (IF a[1] = 0 \/ b[1] = 0 THEN <<0, 0>> ELSE <<1, 0>>)
    ELSE IF a[1] = 0 \/ b[1] = 0 THEN <<0, 1>>
    ELSE LET g == GCD(a[1], b[2])
             h == GCD(b[1], a[2])
         IN <<(a[1] \div g) * (b[1] \div h), (a[2] \div h) * (b[2] \div g)>>
RDiv(a, b) ==
    IF ~IsFinite(a) \/ ~IsFinite(b) THEN <<0, 0>>
    ELSE IF b[1] = 0 THEN Norm(a[1], 0)
    ELSE RMul(a, <<b[2], b[1]>>)

RECURSIVE RSum(_)
RSum(s) == IF s = <<>> THEN Zero ELSE RAdd(Head(s), RSum(Tail(s)))

\* ------------------------------------------------------- sensitivity matrix

\* The cells of an array of shape <<d0, d1, d2>>, indexed from 0 as numpy does.
Cells(shape) == (0..shape[1] - 1) \X (0..shape[2] - 1) \X (0..shape[3] - 1)

NumCells(shape) == shape[1] * shape[2] * shape[3]

\* The shape the class documents for smatrix and for the images it returns.
GridShape(nxy, nz) == <<nxy, nxy, nz>>

\* np.ones([img_nvoxels_xy, img_nvoxels_xy, img_nvoxels_z]) of line 70.
OnesMatrix(nxy, nz) ==
    [shape |-> GridShape(nxy, nz), val |-> [c \in Cells(GridShape(nxy, nz)) |-> 1]]

\* np.zeros([xdim, ydim, zdim]) of lines 89 and 215.
ZerosImage(xdim, ydim, zdim) == [c \in Cells(<<xdim, ydim, zdim>>) |-> Zero]

\* ndarray.flatten('C'): the last index varies fastest.
FlattenC(m) ==
    ConcatAll([i \in 1..m.shape[1] |->
        ConcatAll([j \in 1..m.shape[2] |->
            [k \in 1..m.shape[3] |-> m.val[<<i - 1, j - 1, k - 1>>]]])])

\* ndarray.flatten('F') of line 171: the first index varies fastest.
FlattenF(m) ==
    ConcatAll([k \in 1..m.shape[3] |->
        ConcatAll([j \in 1..m.shape[2] |->
            [i \in 1..m.shape[1] |-> m.val[<<i - 1, j - 1, k - 1>>]]])])

\* ------------------------------------------------------------ decode loop

\* int(a / b) for non-negative a and positive b: Python's true division
\* followed by truncation, which is floor division at these magnitudes.
IntDiv(a, b) == a \div b

\* Lines 108-110 and 223-225: the voxel indices of a position of the 1D image.
DecodeI(ivox, xdim) == ivox % xdim

DecodeJ(ivox, xdim, ydim) == IntDiv(ivox, xdim) % ydim

\* k with the division by ydim left out.
DecodeKNoY(ivox, xdim, ydim) == IntDiv(ivox, xdim)

DecodeK(ivox, xdim, ydim) == IntDiv(ivox, xdim * ydim)

Decode(ivox, xdim, ydim) ==
    <<DecodeI(ivox, xdim), DecodeJ(ivox, xdim, ydim), DecodeK(ivox, xdim, ydim)>>

\* ------------------------------------------------------------------ state

VARIABLES
    prefix,            \* self.prefix, a string
    niterations,       \* self.niterations
    save_every,        \* self.save_every
    TOF,               \* self.TOF
    img_nvoxels_xy,    \* self.img_nvoxels_xy
    img_nvoxels_z,     \* self.img_nvoxels_z
    smatrix,           \* self.smatrix: [shape, val]
    argTOF,            \* the TOF argument the constructor was called with
    dirs,              \* the directories that exist
    files,             \* the files that exist: <<prefix, niter>> -> [vals, extra]
    pc,                \* where the running call stands; "idle" between calls
    started,           \* reconstruct has been called on this object
    call,              \* the call that runs or ran last
    lens,              \* reconstruct: the lengths of the eight LOR arrays
    niter,             \* read_image: the iteration asked for
    out,               \* the messages the call has printed
    result,            \* the outcome of the call
    eng,               \* the calls of MLEM_TOF_Reco made by the call: their arguments
    proj,              \* engine: which voxels the LORs of the batch touch
    n,                 \* engine: the iterations completed
    x,                 \* engine: the image estimate, a 1D array
    written,           \* engine: the iterations whose checkpoint was written
    xlog,              \* engine: the image as it stood after each iteration
    s_arr,             \* read_image: the unpacked floats
    rimg,              \* reconstruct: the engine's image as a 1D array
    ivox,              \* the position of the decode loop
    img_arr,           \* the 3D array the call builds and returns
    hits               \* how often the decode loop assigned each cell

self == <<prefix, niterations, save_every, TOF, img_nvoxels_xy, img_nvoxels_z, smatrix>>
env == <<dirs, files>>
engine == <<eng, proj, n, x, written, xlog>>
locals == <<s_arr, rimg, ivox, img_arr, hits>>
vars == <<self, argTOF, env, pc, started, call, lens, niter, out, result, engine, locals>>

\* --------------------------------------------------------- file contents

\* The name "{prefix}{niter}.raw" of lines 92 and of the engine's checkpoints.
FileName(pre, it) == <<pre, it>>

\* len(fdata): four bytes per float and the bytes of a trailing partial one.
ByteLength(f) == 4 * Len(f.vals) + f.extra

\* os.path.isfile(fpath) of line 93.
IsFile(name, fs) == name \in DOMAIN fs

\* The file system with one file written or replaced.
WriteFile(fs, name, f) ==
    [k \in DOMAIN fs \cup {name} |-> IF k = name THEN f ELSE fs[k]]

\* ------------------------------------------------------------ constructor

\* The shapes a caller may give smatrix, by kind, for a grid of nxy, nz.
ShapeOf(kind, nxy, nz) ==
    CASE kind = "grid" -> <<nxy, nxy, nz>>
      [] kind = "perm" -> <<nz, nxy, nxy>>
      [] kind = "line" -> <<nxy * nxy * nz, 1, 1>>
      [] kind = "tall" -> <<nxy, nxy, nz + 1>>

\* The values a caller may fill it with: all different ("tag", the cell's
\* row-major rank plus one) or with zeros among them ("ramp").
PatternValue(pat, shape, c) ==
    CASE pat = "tag" -> 1 + (c[1] * shape[2] + c[2]) * shape[3] + c[3]
      [] pat = "ramp" -> (c[1] + 2 * c[2] + c[3]) % 3

CallerMatrix(arg, nxy, nz) ==
    LET shape == ShapeOf(arg[1], nxy, nz)
    IN [shape |-> shape, val |-> [c \in Cells(shape) |-> PatternValue(arg[2], shape, c)]]

\* Lines 69-73: None becomes a matrix of ones, anything else is kept as given.
CtorSmatrix(arg, nxy, nz) ==
    IF arg[1] = "none" THEN OnesMatrix(nxy, nz) ELSE CallerMatrix(arg, nxy, nz)

\* Line 62: the attribute is set to True, whatever the argument.
CtorTOF(arg) == TRUE

\* ------------------------------------------------------------ reconstruct

\* The check with only the first folder of the prefix looked at.
OutputDirOKFirstFolder(pre, ds) ==
    LET folders == Split(pre, Slash)
    IN PathExists(JoinFolders(SubSeq(folders, 1, IF Len(folders) > 1 THEN 1 ELSE 0), <<>>), ds)

\* Lines 146-152: the directory part of the prefix must exist.
OutputDirOK(pre, ds) == PathExists(FolderPath(pre), ds)

\* The check with lor_t2 left out.
LorLengthsOKNoT2(ls) ==
    LET ncoinc == ls[1]
    IN ~(ls[2] # ncoinc \/ ls[3] # ncoinc \/ ls[4] # ncoinc \/ ls[5] # ncoinc
         \/ ls[6] # ncoinc \/ ls[7] # ncoinc)

\* Lines 157-161: the eight LOR arrays have the length of lor_x1.
LorLengthsOK(ls) ==
    LET ncoinc == ls[1]
    IN ~(ls[2] # ncoinc \/ ls[3] # ncoinc \/ ls[4] # ncoinc \/ ls[5] # ncoinc
         \/ ls[6] # ncoinc \/ ls[7] # ncoinc \/ ls[8] # ncoinc)

\* Lines 166-172: the flattened sensitivity matrix has nvoxels entries.
SmatLengthOK(m, nxy, nz) == Len(FlattenF(m)) = nxy * nxy * nz

\* Lines 181-208: the arguments handed to MLEM_TOF_Reco.
EngineArgs(ls, smat) ==
    [niterations |-> niterations, TOF |-> TOF,
     nvoxels_xy |-> img_nvoxels_xy, nvoxels_z |-> img_nvoxels_z,
     ncoinc |-> ls[1], smat |-> smat, prefix |-> prefix,
     save_every |-> save_every]

\* The local state of a call that has built no array yet.
NoArray == ZerosImage(0, 0, 0)
NoHits == [c \in Cells(<<0, 0, 0>>) |-> 0]

FreshLocals ==
    /\ s_arr' = <<>>
    /\ rimg' = <<>>
    /\ ivox' = 0
    /\ img_arr' = NoArray
    /\ hits' = NoHits

FreshEngine ==
    /\ proj' = "unset"
    /\ n' = 0
    /\ x' = <<>>
    /\ written' = <<>>
    /\ xlog' = <<>>

\* The length arguments of a call: all equal, or one array longer or shorter.
LorLens(ncoinc, bad, d) == [a \in 1..8 |-> IF a = bad THEN ncoinc + d ELSE ncoinc]

\* reconstruct, lines 146-208: the three checks, then the call of the engine.
\* A reconstructor runs one reconstruction; its checkpoints are read before
\* and after it.
Reconstruct ==
    /\ pc = "idle"
    /\ ~started
    /\ started' = TRUE
    /\ \E ncoinc \in 0..MaxLor, bad \in 0..8, d \in {-1, 1} :
          /\ ncoinc + d >= 0
          /\ lens' = LorLens(ncoinc, bad, d)
    /\ call' = "reconstruct"
    /\ niter' = 0
    /\ FreshLocals
    /\ FreshEngine
    /\ UNCHANGED <<self, argTOF, env>>
    /\ IF ~OutputDirOK(prefix, dirs)
          THEN /\ out' = <<"ERR_PATH">>
               /\ result' = "exit"
               /\ pc' = "exited"
               /\ eng' = <<>>
          ELSE IF ~LorLengthsOK(lens')
          THEN /\ out' = <<"ERR_LOR">>
               /\ result' = "None"
               /\ pc' = "idle"
               /\ eng' = <<>>
          ELSE IF ~SmatLengthOK(smatrix, img_nvoxels_xy, img_nvoxels_z)
          THEN /\ out' = <<"ERR_SMAT">>
               /\ result' = "None"
               /\ pc' = "idle"
               /\ eng' = <<>>
          ELSE /\ out' = <<>>
               /\ result' = "pending"
               /\ pc' = "engine_uninit"
               /\ eng' = <<EngineArgs(lens', FlattenF(smatrix))>>

\* ------------------------------------------- the engine, MLEM_TOF_Reco

\* The projection weight P(l, v) of LOR l at the voxel of linear position
\* v.  The geometric kernel is left open; what the iteration depends on is
\* which voxels a LOR touches, and the batch of a run is one of: every LOR
\* touches every voxel ("full"), LOR l touches the voxels of its parity
\* ("stripe"), no LOR touches the grid ("miss").
Projections == {"full", "stripe", "miss"}

Proj(pr, l, v) ==
    CASE pr = "full" -> 1
      [] pr = "stripe" -> IF (l + v) % 2 = 0 THEN 1 ELSE 0
      [] pr = "miss" -> 0

\* Initialization: 1.0 at the voxels of non-zero sensitivity, 0 elsewhere.
InitImage(smat) == [v \in 1..Len(smat) |-> IF smat[v] = 0 THEN Zero ELSE One]

\* Step 1: the forward projection of LOR l.
Forward(pr, img, l) ==
    RSum([v \in 1..Len(img) |-> RMul(Rat(Proj(pr, l, v)), img[v])])

\* Steps 2 and 5: the ratio of LOR l; a LOR with y = 0 contributes nothing.
Ratio(y) == IF y = Zero THEN Zero ELSE RDiv(One, y)

\* Step 3: the back projection into voxel v.
Back(pr, img, ncoinc, v) ==
    RSum([l \in 1..ncoinc |-> RMul(Rat(Proj(pr, l, v)), Ratio(Forward(pr, img, l)))])

\* The update with no guard on s_v.
UpdateUnguarded(xv, cv, sv) == RDiv(RMul(xv, cv), Rat(sv))

\* Step 4: x_v <- x_v * c_v / s_v; a voxel with s_v = 0 is not updated.
UpdateVoxel(xv, cv, sv) ==
    IF sv = 0 THEN xv ELSE RDiv(RMul(xv, cv), Rat(sv))

\* One iteration of the image.
Iterate(pr, img, a) ==
    [v \in 1..Len(img) |-> UpdateVoxel(img[v], Back(pr, img, a.ncoinc, v), a.smat[v])]

\* The rule with the final iteration left out.
ShouldSaveNoFinal(k, every, total) == every > 0 /\ k % every = 0

\* Checkpointing: after iteration k when save_every > 0 divides it, and
\* always after the final one.
ShouldSave(k, every, total) == (every > 0 /\ k % every = 0) \/ k = total

\* The image a checkpoint of the iteration holds: the one just computed.
CheckpointImage(old, new) == new

\* Uninitialized -> Ready.
EngineInit ==
    /\ pc = "engine_uninit"
    /\ \E pr \in Projections : proj' = pr
    /\ x' = InitImage(eng[1].smat)
    /\ n' = 0
    /\ pc' = "engine_iter"
    /\ UNCHANGED <<self, argTOF, env, started, call, lens, niter, out, result, eng, written, xlog, locals>>

\* Iterating(n) -> Iterating(n + 1), with the checkpoint of iteration n + 1.
EngineIterate ==
    /\ pc = "engine_iter"
    /\ n < eng[1].niterations
    /\ LET a == eng[1]
           new == Iterate(proj, x, a)
       IN /\ x' = new
          /\ n' = n + 1
          /\ xlog' = Append(xlog, new)
          /\ IF ShouldSave(n + 1, a.save_every, a.niterations)
                THEN /\ files' = WriteFile(files, FileName(a.prefix, n + 1),
                                           [vals |-> CheckpointImage(x, new), extra |-> 0])
                     /\ written' = Append(written, n + 1)
                ELSE UNCHANGED <<files, written>>
    /\ UNCHANGED <<self, argTOF, dirs, pc, started, call, lens, niter, out, result, eng, proj, locals>>

\* Iterating(niterations) -> Stopped: the image goes back to reconstruct,
\* which copies it (line 218) and starts its decode loop (line 215).
EngineReturn ==
    /\ pc = "engine_iter"
    /\ n >= eng[1].niterations
    /\ rimg' = [i \in 1..(img_nvoxels_xy * img_nvoxels_xy * img_nvoxels_z) |-> x[i]]
    /\ img_arr' = ZerosImage(img_nvoxels_xy, img_nvoxels_xy, img_nvoxels_z)
    /\ hits' = [c \in Cells(GridShape(img_nvoxels_xy, img_nvoxels_z)) |-> 0]
    /\ ivox' = 0
    /\ pc' = "decode"
    /\ UNCHANGED <<self, argTOF, env, started, call, lens, niter, out, result, engine, s_arr>>

\* ------------------------------------------------------- the decode loops

\* img_arr[i,j,k] = w of lines 111 and 226; an index outside the array
\* raises IndexError.
InRange(c, arr) == c \in DOMAIN arr

\* One pass of the loop of lines 222-226.
RecoDecodeStep ==
    /\ pc = "decode"
    /\ ivox < Len(rimg)
    /\ LET c == Decode(ivox, img_nvoxels_xy, img_nvoxels_xy)
       IN IF InRange(c, img_arr)
            THEN /\ img_arr' = [img_arr EXCEPT ![c] = rimg[ivox + 1]]
                 /\ hits' = [hits EXCEPT ![c] = @ + 1]
                 /\ ivox' = ivox + 1
                 /\ UNCHANGED <<pc, result>>
            ELSE /\ pc' = "crashed"
                 /\ result' = "IndexError"
                 /\ UNCHANGED <<img_arr, hits, ivox>>
    /\ UNCHANGED <<self, argTOF, env, started, call, lens, niter, out, engine, s_arr, rimg>>

\* Line 228.
RecoReturn ==
    /\ pc = "decode"
    /\ ivox >= Len(rimg)
    /\ result' = "image"
    /\ pc' = "idle"
    /\ UNCHANGED <<self, argTOF, env, started, call, lens, niter, out, engine, locals>>

\* -------------------------------------------------------------- read_image

\* Line 101.
DataLengthOK(f, nvoxels) == ByteLength(f) = nvoxels * 4

\* read_image, lines 85-104 and 112-117: the array of zeros, the file
\* checks, and the return of the array when a check fails.
ReadImage ==
    /\ pc = "idle"
    /\ call' = "read_image"
    /\ \E it \in 0..MaxIter :
        LET fpath == FileName(prefix, it)
            nvoxels == img_nvoxels_xy * img_nvoxels_xy * img_nvoxels_z
        IN /\ niter' = it
           /\ lens' = <<>>
           /\ img_arr' = ZerosImage(img_nvoxels_xy, img_nvoxels_xy, img_nvoxels_z)
           /\ hits' = [c \in Cells(GridShape(img_nvoxels_xy, img_nvoxels_z)) |-> 0]
           /\ ivox' = 0
           /\ rimg' = <<>>
           /\ IF ~IsFile(fpath, files)
                 THEN /\ out' = <<"ERR_NOTFOUND">>
                      /\ s_arr' = <<>>
                      /\ result' = "image"
                      /\ pc' = "idle"
                 ELSE IF ~DataLengthOK(files[fpath], nvoxels)
                 THEN /\ out' = <<"READ", "ERR_LENGTH">>
                      /\ s_arr' = <<>>
                      /\ result' = "image"
                      /\ pc' = "idle"
                 ELSE /\ out' = <<"READ">>
                      /\ s_arr' = files[fpath].vals
                      /\ result' = "pending"
                      /\ pc' = "read_decode"
    /\ eng' = <<>>
    /\ FreshEngine
    /\ UNCHANGED <<self, argTOF, env, started>>

\* One pass of the loop of lines 107-111.
ReadDecodeStep ==
    /\ pc = "read_decode"
    /\ ivox < Len(s_arr)
    /\ LET c == Decode(ivox, img_nvoxels_xy, img_nvoxels_xy)
       IN IF InRange(c, img_arr)
            THEN /\ img_arr' = [img_arr EXCEPT ![c] = s_arr[ivox + 1]]
                 /\ hits' = [hits EXCEPT ![c] = @ + 1]
                 /\ ivox' = ivox + 1
                 /\ UNCHANGED <<pc, result>>
            ELSE /\ pc' = "crashed"
                 /\ result' = "IndexError"
                 /\ UNCHANGED <<img_arr, hits, ivox>>
    /\ UNCHANGED <<self, argTOF, env, started, call, lens, niter, out, engine, s_arr, rimg>>

\* Line 117, after the loop.
ReadReturn ==
    /\ pc = "read_decode"
    /\ ivox >= Len(s_arr)
    /\ result' = "image"
    /\ pc' = "idle"
    /\ UNCHANGED <<self, argTOF, env, started, call, lens, niter, out, engine, locals>>

\* ---------------------------------------------------------- initial states

Prefixes ==
    { <<"m">>,
      <<"a", Slash, "m">>,
      <<Slash, "a", Slash, "m">>,
      <<"a", Slash, "b", Slash, "m">> }

\* The directory trees: the root and the working directory, and any of
\* w/a, /a and w/a/b whose parent is there too.
DirChoices ==
    { {<<>>, Cwd} \cup extra :
        extra \in { e \in SUBSET {<<"w", "a">>, <<"a">>, <<"w", "a", "b">>} :
                      <<"w", "a", "b">> \in e => <<"w", "a">> \in e } }

FullTree == {<<>>, Cwd, <<"w", "a">>, <<"a">>, <<"w", "a", "b">>}

\* smatrix as the caller gives it: <<"none", "">> for None.
NoSmatrix == <<"none", "">>
ShapeKinds == {"grid", "perm", "line", "tall"}
SmArgs(kinds, pats) == {NoSmatrix} \cup (kinds \X pats)

\* The directory part of a prefix: its characters up to the last '/'.
LastSlash(p) ==
    LET at == {i \in 1..Len(p) : p[i] = Slash}
    IN IF at = {} THEN 0 ELSE CHOOSE i \in at : \A j \in at : j <= i

HasDir(p) == LastSlash(p) > 0

DirPart(p) == SubSeq(p, 1, LastSlash(p))

\* The directory the files of a prefix go to exists.
DirPartExists(p, ds) ==
    IF HasDir(p) THEN Resolve(DirPart(p)) \in ds ELSE Cwd \in ds

\* A file left by an earlier run, by kind, for a grid of nvoxels voxels.
FileKinds == {"absent", "exact", "short", "long", "ragged"}

FileOfKind(kind, nvoxels) ==
    LET len == CASE kind = "short" -> nvoxels - 1
                 [] kind = "long" -> nvoxels + 1
                 [] OTHER -> nvoxels
    IN [vals |-> [q \in 1..len |-> Rat(q)],
        extra |-> IF kind = "ragged" THEN 2 ELSE 0]

NoFiles == [k \in {} |-> 0]

InitOver(prefixes, trees, tofs, xys, zs, smargs, niters, saves, kinds) ==
    /\ prefix \in prefixes
    /\ dirs \in trees
    /\ argTOF \in tofs
    /\ TOF = CtorTOF(argTOF)
    /\ img_nvoxels_xy \in xys
    /\ img_nvoxels_z \in zs
    /\ \E arg \in smargs : smatrix = CtorSmatrix(arg, img_nvoxels_xy, img_nvoxels_z)
    /\ niterations \in niters
    /\ save_every \in saves
    /\ \E kind \in kinds :
          files = IF kind = "absent" \/ ~DirPartExists(prefix, dirs)
                    THEN NoFiles
                    ELSE WriteFile(NoFiles, FileName(prefix, 1),
                                   FileOfKind(kind, img_nvoxels_xy * img_nvoxels_xy * img_nvoxels_z))
    /\ pc = "idle"
    /\ started = FALSE
    /\ call = "none"
    /\ lens = <<>>
    /\ niter = 0
    /\ out = <<>>
    /\ result = "pending"
    /\ eng = <<>>
    /\ proj = "unset"
    /\ n = 0
    /\ x = <<>>
    /\ written = <<>>
    /\ xlog = <<>>
    /\ s_arr = <<>>
    /\ rimg = <<>>
    /\ ivox = 0
    /\ img_arr = NoArray
    /\ hits = NoHits

\* Reconstructors with the default iteration settings and two layers of
\* voxels, over every prefix, directory tree, TOF argument and sensitivity
\* matrix.
Init ==
    InitOver(Prefixes, DirChoices, BOOLEAN, 1..MaxXY, {2}, SmArgs(ShapeKinds, {"tag"}),
             {1}, {-1}, {"absent"})

\* Reconstructors of one layer of voxels that pass the checks, over the
\* iteration settings.
InitEngine ==
    InitOver({<<"a", Slash, "m">>}, {FullTree}, {TRUE}, 1..MaxXY, {1},
             SmArgs({"grid"}, {"ramp"}), 0..MaxIter, -1..MaxIter, {"absent"})

\* Reconstructors over the files an earlier run may have left.
InitCodec ==
    InitOver({<<"m">>, <<"a", Slash, "m">>}, {FullTree}, {TRUE}, 1..MaxXY, 1..MaxZ,
             SmArgs({"grid"}, {"tag"}), {1}, {-1}, FileKinds)

Next ==
    \/ Reconstruct
    \/ EngineInit
    \/ EngineIterate
    \/ EngineReturn
    \/ RecoDecodeStep
    \/ RecoReturn
    \/ ReadImage
    \/ ReadDecodeStep
    \/ ReadReturn

Spec == Init /\ [][Next]_vars
SpecEngine == InitEngine /\ [][Next]_vars
SpecCodec == InitCodec /\ [][Next]_vars

\* ------------------------------------------------------------------ claims

\* The linear index of voxel (i, j, k): x fastest, then y, then z.
Encode(c, nx, ny) == c[1] + c[2] * nx + c[3] * nx * ny

Grid == GridShape(img_nvoxels_xy, img_nvoxels_z)

\* The running or last call is a reconstruct whose LOR arrays differ in length.
LorMismatch ==
    call = "reconstruct" /\ \E a \in 1..8, b \in 1..8 : lens[a] # lens[b]

\* C1: a reconstruct call whose eight LOR arrays do not all have the same
\* length ends in an explicit error (the LOR message and None, or the exit
\* of the output-directory check that precedes it) and the engine is never
\* invoked: no iteration has run and no image exists.
C1_MismatchRejected ==
    LorMismatch =>
        /\ eng = <<>>
        /\ n = 0 /\ x = <<>> /\ xlog = <<>> /\ written = <<>>
        /\ \/ pc = "idle" /\ result = "None" /\ out = <<"ERR_LOR">>
           \/ pc = "exited" /\ result = "exit" /\ out = <<"ERR_PATH">>

C1_Witness ==
    /\ LorMismatch
    /\ lens[8] # lens[1]
    /\ \A a \in 1..7 : lens[a] = lens[1]
    /\ result = "None"
    /\ out = <<"ERR_LOR">>

\* C2: a reconstruct call on a sensitivity matrix whose shape is not
\* (nvoxels_xy, nvoxels_xy, nvoxels_z) ends in an error and the engine is
\* not invoked, also when the matrix has the grid's number of elements.
C2_ShapeRejected ==
    (call = "reconstruct" /\ smatrix.shape # Grid) =>
        (eng = <<>> /\ result \in {"None", "exit"})

\* C3: a reconstruct call on a prefix whose directory part does not exist
\* exits at once: with the path error alone, before any LOR check reports,
\* the engine not invoked, no directory and no file created, and the
\* reconstructor's fields as they were.
C3_FailFast ==
    [][(pc = "idle" /\ ~started /\ started'
        /\ HasDir(prefix) /\ ~DirPartExists(prefix, dirs))
       => /\ pc' = "exited"
          /\ result' = "exit"
          /\ out' = <<"ERR_PATH">>
          /\ eng' = <<>>
          /\ dirs' = dirs
          /\ files' = files
          /\ self' = self]_vars

C3_Witness ==
    /\ pc = "exited"
    /\ HasDir(prefix) /\ ~DirPartExists(prefix, dirs)
    /\ Resolve(<<"a", Slash>>) \in dirs
    /\ LorMismatch
    /\ out = <<"ERR_PATH">>
    /\ eng = <<>>

\* C4: read_image returns an image only when the file exists and holds
\* exactly nx*ny*nz*4 bytes; in the two error cases the caller gets no
\* image array.
C4_ReadErrorsGiveNoImage ==
    (call = "read_image" /\ pc = "idle") =>
        (result = "image" <=>
            /\ IsFile(FileName(prefix, niter), files)
            /\ ByteLength(files[FileName(prefix, niter)]) = NumCells(Grid) * 4)

\* C5: the TOF flag handed to the engine is the TOF value the caller gave
\* the constructor.
C5_TOFPassedThrough ==
    eng # <<>> => eng[1].TOF = argTOF

\* The decode is the inverse of the linear index on a grid of nx, ny, nz.
DecodeInvertsEncode(nx, ny, nz) ==
    /\ \A c \in Cells(<<nx, ny, nz>>) : Decode(Encode(c, nx, ny), nx, ny) = c
    /\ \A q \in 0..(nx * ny * nz - 1) :
          /\ Decode(q, nx, ny) \in Cells(<<nx, ny, nz>>)
          /\ Encode(Decode(q, nx, ny), nx, ny) = q

\* A decode loop has run to its end over the 1D array flat.
Decoded(flat) ==
    \A c \in Cells(Grid) :
        /\ img_arr[c] = flat[Encode(c, img_nvoxels_xy, img_nvoxels_xy) + 1]
        /\ hits[c] = 1

\* C6: the decode i = ivox % nx, j = (ivox / nx) % ny, k = ivox / (nx*ny) is
\* a bijection from the positions 0..nx*ny*nz-1 onto the grid that inverts
\* ivox = i + j*nx + k*nx*ny; the array built by the loop of read_image,
\* and the one built by the loop of reconstruct, holds at [i,j,k] the value
\* of position ivox, every cell assigned exactly once and no index outside
\* the array.
C6_DecodeRoundTrip ==
    /\ call = "none" =>
          \A nx \in 1..MaxXY, ny \in 1..MaxXY, nz \in 1..MaxZ : DecodeInvertsEncode(nx, ny, nz)
    /\ pc # "crashed"
    /\ pc \in {"decode", "read_decode"} =>
          \A c \in Cells(Grid) :
              hits[c] = IF Encode(c, img_nvoxels_xy, img_nvoxels_xy) < ivox THEN 1 ELSE 0
    /\ (pc = "idle" /\ call = "read_image" /\ out = <<"READ">>) =>
          /\ s_arr = files[FileName(prefix, niter)].vals
          /\ Decoded(s_arr)
    /\ (pc = "idle" /\ call = "reconstruct" /\ result = "image") =>
          /\ rimg = x
          /\ Decoded(rimg)

C6_Witness ==
    /\ pc = "idle" /\ call = "read_image" /\ out = <<"READ">> /\ result = "image"
    /\ img_nvoxels_xy = MaxXY /\ img_nvoxels_z = MaxZ
    /\ \A c \in Cells(Grid), d \in Cells(Grid) : c # d => img_arr[c] # img_arr[d]

\* C7: once the engine is initialized, and after any number of iterations,
\* every voxel of sensitivity 0 holds exactly 0, now and after every
\* iteration so far, and no value is the result of a division by zero.
C7_ZeroSensitivityStaysZero ==
    (eng # <<>> /\ pc # "engine_uninit") =>
        /\ Len(x) = Len(eng[1].smat)
        /\ \A v \in 1..Len(x) :
              /\ IsFinite(x[v])
              /\ eng[1].smat[v] = 0 =>
                    (x[v] = Zero /\ \A k \in 1..Len(xlog) : xlog[k][v] = Zero)

C7_Witness ==
    /\ pc = "engine_iter"
    /\ n >= 2
    /\ \E v \in 1..Len(x) : eng[1].smat[v] = 0 /\ x[v] = Zero
    /\ \E v \in 1..Len(x) : eng[1].smat[v] # 0 /\ x[v] \notin {Zero, One}

\* The iterations up to k after which a checkpoint is due.
DueUpTo(k) ==
    SelectSeq([q \in 1..k |-> q],
              LAMBDA q : (save_every > 0 /\ q % save_every = 0) \/ q = niterations)

C9_SensitivityOrder ==
    (eng # <<>> /\ smatrix.shape = Grid) =>
        /\ Len(eng[1].smat) = NumCells(Grid)
        /\ \A c \in Cells(Grid) :
              /\ eng[1].smat[Encode(c, img_nvoxels_xy, img_nvoxels_xy) + 1] = smatrix.val[c]
              /\ Decode(Encode(c, img_nvoxels_xy, img_nvoxels_xy),
                        img_nvoxels_xy, img_nvoxels_xy) = c

C9_Witness ==
    /\ eng # <<>>
    /\ smatrix.shape = Grid
    /\ img_nvoxels_xy = MaxXY /\ img_nvoxels_z = MaxZ
    /\ \A c \in Cells(Grid), d \in Cells(Grid) : c # d => smatrix.val[c] # smatrix.val[d]

\* C10: the output-directory check ends the run only when the directory
\* the checkpoints go to does not exist; a prefix with no '/' names the
\* working directory, which exists, so the run goes on.
C10_AbortOnlyWhenMissing ==
    pc = "exited" => ~DirPartExists(prefix, dirs)

====
